---------------------------- MODULE Spec2Model ----------------------------
(***************************************************************************)
(* Agentflow Bridge (server.js): the POST /bridge handler, the shop        *)
(* selection by health probes, and the translation of the client payload   *)
(* into the cartCreate mutation variables.                                 *)
(*                                                                         *)
(* JavaScript values are tagged records.  Strings are TLA+ strings, and    *)
(* the conversions the code relies on (String(), Number(), JSON.parse,     *)
(* startsWith, Array.prototype.join) are computed character by character.  *)
(* Numbers are rationals num/den with den in {1, 2}, which is enough to    *)
(* tell an integer from a fraction; NaN is a separate number.              *)
(***************************************************************************)
EXTENDS Integers, Sequences, FiniteSets, TLC

\* ------------------------------------------------------------------------
\* Bounds of the model
\* ------------------------------------------------------------------------
MaxLines == 1      \* longest non-empty `lines` array drawn for a direct body
MaxErrs == 2       \* longest `userErrors` array a shop answers with

\* ------------------------------------------------------------------------
\* JavaScript values
\* ------------------------------------------------------------------------
Undef == [t |-> "undefined"]
Null == [t |-> "null"]
Bool(b) == [t |-> "boolean", b |-> b]
Rat(n, d) == [t |-> "number", nan |-> FALSE, num |-> n, den |-> d]
Num(n) == Rat(n, 1)
NaN == [t |-> "number", nan |-> TRUE, num |-> 0, den |-> 1]
Str(s) == [t |-> "string", s |-> s]
Arr(items) == [t |-> "array", items |-> items]
Ent(k, v) == [key |-> k, value |-> v]
Obj(entries) == [t |-> "object", entries |-> entries]

\* typeof v
TypeOf(v) ==
  IF v.t \in {"null", "array", "object"} THEN "object" ELSE v.t

\* v == null  (loose equality: null or undefined)
IsNullish(v) == v.t \in {"undefined", "null"}

\* ToBoolean(v)
Truthy(v) ==
  CASE v.t = "undefined" -> FALSE
    [] v.t = "null" -> FALSE
    [] v.t = "boolean" -> v.b
    [] v.t = "number" -> ~v.nan /\ v.num # 0
    [] v.t = "string" -> v.s # ""
    [] OTHER -> TRUE

\* Own property lookup o?.[k]; a later duplicate key overrides an earlier one.
HasOwn(o, k) == o.t = "object" /\ \E i \in 1..Len(o.entries) : o.entries[i].key = k

Get(o, k) ==
  IF HasOwn(o, k)
    THEN LET I == {i \in 1..Len(o.entries) : o.entries[i].key = k}
             m == CHOOSE i \in I : \A j \in I : j <= i
         IN  o.entries[m].value
    ELSE Undef

\* ------------------------------------------------------------------------
\* Number -> String
\* ------------------------------------------------------------------------
Digit(d) == SubSeq("0123456789", d + 1, d + 1)

RECURSIVE DecStr(_)
DecStr(n) == IF n < 10 THEN Digit(n) ELSE DecStr(n \div 10) \o Digit(n % 10)

Abs(n) == IF n < 0 THEN -n ELSE n

NumberToString(x) ==
  IF x.nan THEN "NaN"
  ELSE (IF x.num < 0 THEN "-" ELSE "")
       \o DecStr(Abs(x.num) \div x.den)
       \o (IF x.den = 2 THEN ".5" ELSE "")

\* ------------------------------------------------------------------------
\* String -> Number   (StringToNumber of the language: "" is 0, an optional
\* sign, decimal digits, an optional fraction; anything else is NaN.  The
\* only fraction digits the value domain represents are .0 and .5.)
\* ------------------------------------------------------------------------
IsDigit(c) == \E d \in 0..9 : c = Digit(d)

DigitVal(c) == CHOOSE d \in 0..9 : c = Digit(d)

AllDigits(s) == Len(s) > 0 /\ \A i \in 1..Len(s) : IsDigit(SubSeq(s, i, i))

RECURSIVE DecVal(_)
DecVal(s) ==
  IF Len(s) = 0 THEN 0
  ELSE 10 * DecVal(SubSeq(s, 1, Len(s) - 1)) + DigitVal(SubSeq(s, Len(s), Len(s)))

Normal(n, d) == IF d = 2 /\ n % 2 = 0 THEN Rat(n \div 2, 1) ELSE Rat(n, d)

Unsigned(s) ==
  IF AllDigits(s) THEN Num(DecVal(s))
  ELSE IF Len(s) >= 3 /\ AllDigits(SubSeq(s, 1, Len(s) - 2))
          /\ SubSeq(s, Len(s) - 1, Len(s)) \in {".0", ".5"}
    THEN Normal(2 * DecVal(SubSeq(s, 1, Len(s) - 2))
                  + (IF SubSeq(s, Len(s), Len(s)) = "5" THEN 1 ELSE 0), 2)
  ELSE NaN

Negate(x) == IF x.nan THEN x ELSE Rat(-x.num, x.den)

StringToNumber(s) ==
  IF s = "" THEN Num(0)
  ELSE IF SubSeq(s, 1, 1) = "-" THEN Negate(Unsigned(Tail(s)))
  ELSE IF SubSeq(s, 1, 1) = "+" THEN Unsigned(Tail(s))
  ELSE Unsigned(s)

\* ------------------------------------------------------------------------
\* String(v) and Number(v).  OrdinaryToPrimitive tries toString then valueOf
\* (or the reverse for Number); an object parsed from JSON whose own
\* "toString" member shadows Object.prototype.toString has no callable
\* toString, and the inherited valueOf returns the object itself, so the
\* conversion raises TypeError.
\* ------------------------------------------------------------------------
TypeErrorMessage == "Cannot convert object to primitive value"

RECURSIVE Converts(_)
Converts(v) ==
  CASE v.t = "object" -> ~HasOwn(v, "toString")
    [] v.t = "array" ->
         \A i \in 1..Len(v.items) : IsNullish(v.items[i]) \/ Converts(v.items[i])
    [] OTHER -> TRUE

RECURSIVE ToStr(_)
RECURSIVE Join(_, _)
\* Array.prototype.join: null and undefined elements render as "".
Join(items, sep) ==
  IF Len(items) = 0 THEN ""
  ELSE (IF IsNullish(items[1]) THEN "" ELSE ToStr(items[1]))
       \o (IF Len(items) = 1 THEN "" ELSE sep \o Join(Tail(items), sep))

ToStr(v) ==
  CASE v.t = "undefined" -> "undefined"
    [] v.t = "null" -> "null"
    [] v.t = "boolean" -> (IF v.b THEN "true" ELSE "false")
    [] v.t = "number" -> NumberToString(v)
    [] v.t = "string" -> v.s
    [] v.t = "array" -> Join(v.items, ",")
    [] v.t = "object" -> "[object Object]"

ToNumber(v) ==
  CASE v.t = "undefined" -> NaN
    [] v.t = "null" -> Num(0)
    [] v.t = "boolean" -> (IF v.b THEN Num(1) ELSE Num(0))
    [] v.t = "number" -> v
    [] v.t = "string" -> StringToNumber(v.s)
    [] OTHER -> StringToNumber(ToStr(v))

\* Object.entries(v) for an object or an array (an array's keys are its indices)
Entries(v) ==
  CASE v.t = "object" -> v.entries
    [] v.t = "array" -> [i \in 1..Len(v.items) |-> Ent(DecStr(i - 1), v.items[i])]
    [] OTHER -> <<>>

\* ------------------------------------------------------------------------
\* JSON.parse(text): a recursive-descent reading of the JSON grammar
\* (objects, arrays, strings without escape sequences, numbers without
\* exponent, true, false, null, blanks between tokens).
\* ------------------------------------------------------------------------
Fail == [ok |-> FALSE, v |-> Undef, i |-> 0]
Ok(v, i) == [ok |-> TRUE, v |-> v, i |-> i]

Ch(s, i) == IF i >= 1 /\ i <= Len(s) THEN SubSeq(s, i, i) ELSE ""

LitAt(s, i, lit) ==
  i + Len(lit) - 1 <= Len(s) /\ SubSeq(s, i, i + Len(lit) - 1) = lit

RECURSIVE SkipWs(_, _)
SkipWs(s, i) == IF Ch(s, i) = " " THEN SkipWs(s, i + 1) ELSE i

RECURSIVE DigitsEnd(_, _)
DigitsEnd(s, i) == IF IsDigit(Ch(s, i)) THEN DigitsEnd(s, i + 1) ELSE i

\* index of the closing quote at or after i, 0 when the string never closes
RECURSIVE Closing(_, _)
Closing(s, i) ==
  IF i > Len(s) THEN 0
  ELSE IF Ch(s, i) = "\"" THEN i
  ELSE Closing(s, i + 1)

ParseString(s, i) ==
  LET j == Closing(s, i + 1)
  IN  IF Ch(s, i) = "\"" /\ j > 0 THEN Ok(Str(SubSeq(s, i + 1, j - 1)), j + 1) ELSE Fail

ParseNumber(s, i) ==
  LET a == IF Ch(s, i) = "-" THEN i + 1 ELSE i
      b == DigitsEnd(s, a)
      c == IF Ch(s, b) = "." THEN DigitsEnd(s, b + 1) ELSE b
  IN  IF b = a \/ (Ch(s, a) = "0" /\ b > a + 1) \/ (Ch(s, b) = "." /\ c = b + 1)
        THEN Fail
        ELSE Ok(StringToNumber(SubSeq(s, i, c - 1)), c)

RECURSIVE ParseValue(_, _)
RECURSIVE ParseElements(_, _, _)
RECURSIVE ParseMembers(_, _, _)

ParseElements(s, i, acc) ==
  LET r == ParseValue(s, i)
      j == SkipWs(s, r.i)
  IN  IF ~r.ok THEN Fail
      ELSE IF Ch(s, j) = "," THEN ParseElements(s, j + 1, Append(acc, r.v))
      ELSE IF Ch(s, j) = "]" THEN Ok(Arr(Append(acc, r.v)), j + 1)
      ELSE Fail

ParseMembers(s, i, acc) ==
  LET k == ParseString(s, SkipWs(s, i))
      c == SkipWs(s, k.i)
      r == ParseValue(s, c + 1)
      j == SkipWs(s, r.i)
  IN  IF ~k.ok \/ Ch(s, c) # ":" THEN Fail
      ELSE IF ~r.ok THEN Fail
      ELSE IF Ch(s, j) = "," THEN ParseMembers(s, j + 1, Append(acc, Ent(k.v.s, r.v)))
      ELSE IF Ch(s, j) = "}" THEN Ok(Obj(Append(acc, Ent(k.v.s, r.v))), j + 1)
      ELSE Fail

ParseValue(s, i0) ==
  LET i == SkipWs(s, i0)
      c == Ch(s, i)
  IN  CASE c = "{" ->
             (IF Ch(s, SkipWs(s, i + 1)) = "}"
                THEN Ok(Obj(<<>>), SkipWs(s, i + 1) + 1)
                ELSE ParseMembers(s, i + 1, <<>>))
        [] c = "[" ->
             (IF Ch(s, SkipWs(s, i + 1)) = "]"
                THEN Ok(Arr(<<>>), SkipWs(s, i + 1) + 1)
                ELSE ParseElements(s, i + 1, <<>>))
        [] c = "\"" -> ParseString(s, i)
        [] c = "-" \/ IsDigit(c) -> ParseNumber(s, i)
        [] LitAt(s, i, "true") -> Ok(Bool(TRUE), i + 4)
        [] LitAt(s, i, "false") -> Ok(Bool(FALSE), i + 5)
        [] LitAt(s, i, "null") -> Ok(Null, i + 4)
        [] OTHER -> Fail

\* JSON.parse returns the value, or raises SyntaxError (ok = FALSE)
JSONParse(text) ==
  LET r == ParseValue(text, 1)
  IN  IF r.ok /\ SkipWs(text, r.i) = Len(text) + 1 THEN r ELSE Fail

\* ------------------------------------------------------------------------
\* toVariantGID and the payload translation of createCheckout
\* ------------------------------------------------------------------------
StartsWith(s, p) == Len(s) >= Len(p) /\ SubSeq(s, 1, Len(p)) = p

\* id || ''
OrEmpty(id) == IF Truthy(id) THEN id ELSE Str("")

toVariantGID(id) ==
  LET s == ToStr(OrEmpty(id))
  IN  IF StartsWith(s, "gid://") THEN s ELSE "gid://shopify/ProductVariant/" \o s

\* the test of the line-property loop: v != null and typeof v is one of
\* string, number, boolean
KeepProperty(e) ==
  ~IsNullish(e.value) /\ TypeOf(e.value) \in {"string", "number", "boolean"}

\* the test of the payload-attribute loop: v != null only
KeepAttribute(e) == ~IsNullish(e.value)

\* { key: String(k), value: String(v) }
Pair(e) == Ent(e.key, ToStr(e.value))

\* o && typeof o === 'object'
IsMapping(o) == Truthy(o) /\ TypeOf(o) = "object"

LineAttributes(l) ==
  LET props == Get(l, "properties")
      kept == IF IsMapping(props) THEN SelectSeq(Entries(props), KeepProperty) ELSE <<>>
  IN  [i \in 1..Len(kept) |-> Pair(kept[i])]

\* Number(l?.quantity) || 1
Quantity(l) ==
  LET n == ToNumber(Get(l, "quantity"))
  IN  IF Truthy(n) THEN n ELSE Num(1)

SellingPlanId(l) ==
  LET sp == Get(l, "selling_plan")
  IN  IF Truthy(sp) THEN Str(ToStr(sp)) ELSE Null

NormalizeLine(l) ==
  [quantity |-> Quantity(l),
   merchandiseId |-> toVariantGID(Get(l, "id")),
   sellingPlanId |-> SellingPlanId(l),
   attributes |-> LineAttributes(l)]

\* a conversion of the line raises TypeError
LineThrows(l) ==
  \/ ~Converts(Get(l, "quantity"))
  \/ ~Converts(OrEmpty(Get(l, "id")))
  \/ Truthy(Get(l, "selling_plan")) /\ ~Converts(Get(l, "selling_plan"))

PayloadAttributes(payload) ==
  LET attrs == Get(payload, "attributes")
      kept == IF IsMapping(attrs) THEN SelectSeq(Entries(attrs), KeepAttribute) ELSE <<>>
  IN  [i \in 1..Len(kept) |-> Pair(kept[i])]

AttributesThrow(payload) ==
  LET attrs == Get(payload, "attributes")
      kept == IF IsMapping(attrs) THEN SelectSeq(Entries(attrs), KeepAttribute) ELSE <<>>
  IN  \E i \in 1..Len(kept) : ~Converts(kept[i].value)

Note(payload) ==
  LET note == Get(payload, "note")
  IN  IF Truthy(note) THEN ToStr(note) ELSE ""

\* payload?.lines || []
LinesOf(payload) ==
  LET lines == Get(payload, "lines")
  IN  IF Truthy(lines) /\ lines.t = "array" THEN lines.items ELSE <<>>

\* the variables of the cartCreate mutation
Variables(payload) ==
  [lines |-> [i \in 1..Len(LinesOf(payload)) |-> NormalizeLine(LinesOf(payload)[i])],
   attributes |-> PayloadAttributes(payload),
   note |-> Note(payload)]

\* building the variables raises before the request is sent
NormalizeThrows(payload) ==
  \/ \E i \in 1..Len(LinesOf(payload)) : LineThrows(LinesOf(payload)[i])
  \/ AttributesThrow(payload)
  \/ Truthy(Get(payload, "note")) /\ ~Converts(Get(payload, "note"))

\* ------------------------------------------------------------------------
\* The answer of cartCreate as createCheckout reads it
\* ------------------------------------------------------------------------
CartCreateOf(data) == Get(Get(data, "data"), "cartCreate")

UserErrorsOf(data) == Get(CartCreateOf(data), "userErrors")

CheckoutUrlOf(data) == Get(Get(CartCreateOf(data), "cart"), "checkoutUrl")

\* v?.length
Length(v) ==
  CASE v.t = "array" -> Num(Len(v.items))
    [] v.t = "string" -> Num(Len(v.s))
    [] OTHER -> Get(v, "length")

\* errs?.length
HasUserErrors(errs) == Truthy(Length(errs))

\* errs.map(e => e.message).join('; '), or the TypeError it raises
UserErrorMessage(errs) ==
  IF errs.t # "array" THEN "errs.map is not a function"
  ELSE IF \E i \in 1..Len(errs.items) : IsNullish(errs.items[i])
    THEN "Cannot read properties of null (reading 'message')"
  ELSE Join([i \in 1..Len(errs.items) |-> Get(errs.items[i], "message")], "; ")

Throw(m) == [thrown |-> TRUE, message |-> m, url |-> Undef]
Return(u) == [thrown |-> FALSE, message |-> "", url |-> u]

\* mutant of UrlMissing: only an absent field counts as missing
UrlUndefinedOnly(url) == url.t = "undefined"

\* !url
UrlMissing(url) == ~Truthy(url)

\* mutant of CheckoutOutcome: the URL is looked at before the user errors
CheckoutOutcomeUrlFirst(data) ==
  IF ~UrlMissing(CheckoutUrlOf(data)) THEN Return(CheckoutUrlOf(data))
  ELSE IF HasUserErrors(UserErrorsOf(data)) THEN Throw(UserErrorMessage(UserErrorsOf(data)))
  ELSE Throw("checkoutUrl introuvable")

\* what createCheckout does with the decoded answer
CheckoutOutcome(data) ==
  IF HasUserErrors(UserErrorsOf(data)) THEN Throw(UserErrorMessage(UserErrorsOf(data)))
  ELSE IF UrlMissing(CheckoutUrlOf(data)) THEN Throw("checkoutUrl introuvable")
  ELSE Return(CheckoutUrlOf(data))

\* ------------------------------------------------------------------------
\* Inputs: what a client posts, what the environment configures, what a
\* shop answers
\* ------------------------------------------------------------------------
Field(k, v) == IF v = Undef THEN <<>> ELSE <<Ent(k, v)>>

Unprintable == Obj(<<Ent("toString", Num(1))>>)

Ids ==
  {Undef, Null, Num(0), Num(12345), Bool(FALSE), Str(""), Str("999"),
   Str("gid://shopify/ProductVariant/999"), Str("gid://shopify/Product/7"),
   Obj(<<>>), Unprintable}

Quantities ==
  {Undef, Null, Str("abc"), Str("3"), Str(""), Num(0), Num(-2), Rat(3, 2), Num(2),
   Bool(TRUE), Arr(<<Num(5)>>)}

Mappings ==
  {Undef,
   Obj(<<Ent("color", Str("red")), Ent("size", Num(42)), Ent("active", Bool(TRUE)),
         Ent("meta", Obj(<<Ent("x", Num(1))>>)), Ent("skip", Null)>>),
   Obj(<<Ent("tags", Arr(<<Str("a"), Str("b")>>)), Ent("gift", Bool(FALSE))>>),
   Obj(<<Ent("engraving", Unprintable)>>),
   Arr(<<Str("first")>>),
   Str("red")}

SellingPlans == {Undef, Str("gid://shopify/SellingPlan/1"), Num(7), Unprintable}

Notes == {Undef, Str("gift wrap"), Num(0), Unprintable}

LineRequest(id, quantity, plan, properties) ==
  Obj(Field("id", id) \o Field("quantity", quantity)
      \o Field("selling_plan", plan) \o Field("properties", properties))

\* one field of a line varies at a time
LineRequests ==
  {Null, Str("12345")}
    \cup {LineRequest(id, Num(1), Undef, Undef) : id \in Ids}
    \cup {LineRequest(Num(12345), q, Undef, Undef) : q \in Quantities}
    \cup {LineRequest(Num(12345), Undef, sp, Undef) : sp \in SellingPlans}
    \cup {LineRequest(Num(12345), Undef, Undef, m) : m \in Mappings}

LinesValues ==
  {Undef, Null, Str("12345"), Num(3), Obj(<<Ent("length", Num(1))>>), Arr(<<>>)}
    \cup {Arr(items) : items \in UNION {[1..n -> LineRequests] : n \in 1..MaxLines}}

Payload(lines, attributes, note) ==
  Obj(Field("lines", lines) \o Field("attributes", attributes) \o Field("note", note))

OneLine == Arr(<<LineRequest(Num(12345), Num(2), Undef, Undef)>>)

\* a JSON body, as express.json() hands it over
DirectBodies ==
  {Payload(l, Undef, Undef) : l \in LinesValues}
    \cup {Payload(OneLine, a, Undef) : a \in Mappings}
    \cup {Payload(OneLine, Undef, n) : n \in Notes}

\* the `payload` field of a form, as express.urlencoded() hands it over
FormTexts ==
  {"", "{", "{lines:[]}", "lines=1", "[1,]", "{\"lines\":[{\"id\":1}]",
   "null", "12", "\"lines\"", "{}", "{\"lines\":[]}", "{\"lines\":\"12345\"}",
   "{\"lines\":{\"id\":1}}",
   "{\"lines\":[{\"id\":12345,\"quantity\":2}]}",
   "{\"lines\": [{\"id\":\"gid://shopify/ProductVariant/999\",\"quantity\":-1.5}], \"note\":\"hi\"}"}

FormBodies == {Obj(<<Ent("payload", Str(text))>>) : text \in FormTexts}

RequestBodies == {Undef} \cup DirectBodies \cup FormBodies

\* process.env: SHOP_B_* are used as they are, SHOP_C_* default to ''
ShopConfigs ==
  [B : [domain : {Undef, Str("b.myshopify.com")}, sfApi : {Undef, Str("token-b")}],
   C : [domain : {Str(""), Str("c.myshopify.com")}, sfApi : {Str(""), Str("token-c")}]]

ShopKeys == {"B", "C"}

\* outcome of the probe's round trip
ProbeOutcomes == {"rejected", "status-error", "status-ok"}

Messages == {"", "Out of stock", "Invalid variant"}

UserError(m) == Obj(<<Ent("field", Null), Ent("message", Str(m))>>)

UserErrorLists ==
  {Undef, Null, Str("denied")}
    \cup {Arr([i \in 1..Len(ms) |-> UserError(ms[i])]) :
            ms \in UNION {[1..n -> Messages] : n \in 0..MaxErrs}}

CheckoutUrls == {Undef, Null, Str(""), Str("https://b.myshopify.com/cart/c/1")}

Answer(errs, url) ==
  Obj(<<Ent("data",
            Obj(<<Ent("cartCreate",
                      Obj(Field("cart", IF url = Undef THEN Null
                                        ELSE Obj(<<Ent("id", Str("gid://shopify/Cart/1")),
                                                   Ent("checkoutUrl", url)>>))
                          \o Field("userErrors", errs)))>>))>>)

\* the JSON documents a shop answers the mutation with
Answers ==
  {Obj(<<Ent("data", Null), Ent("errors", Arr(<<Obj(<<Ent("message", Str("Throttled"))>>)>>))>>)}
    \cup {Answer(errs, url) : errs \in UserErrorLists, url \in CheckoutUrls}

\* outcome of the mutation's round trip: fetch rejects, r.json() rejects, or
\* a JSON document arrives
Replies ==
  {[kind |-> "rejected", message |-> m, data |-> Undef] :
      m \in {"request to shop failed", ""}}
    \cup {[kind |-> "not-json", message |-> "invalid json response body", data |-> Undef]}
    \cup {[kind |-> "json", message |-> "", data |-> d] : d \in Answers}

\* ------------------------------------------------------------------------
\* State
\* ------------------------------------------------------------------------
VARIABLES
  SHOPS,      \* the shop configuration read from the environment at start
  pc,         \* where the /bridge handler of the request stands
  reqBody,    \* req.body of the request; forgotten once the mutation is sent
  body,       \* the handler's `body` (the parsed payload) while the handler reads it
  cur,        \* the shop key healthCheck is running for
  health,     \* the healthCheck calls of the request, in order, with results
  picks,      \* number of pickTargetShop calls of the request
  target,     \* the handler's `target`
  carts,      \* the shops a cartCreate mutation was sent to, in order
  outbound,   \* the mutation in flight: its shop and its variables
  answer,     \* what came back for the mutation
  res         \* the response sent

vars == <<SHOPS, pc, reqBody, body, cur, health, picks, target, carts, outbound, answer, res>>

NoReq == [t |-> "none"]
NoRes == [status |-> 0, error |-> "", location |-> Undef]
NoMsg == [shop |-> "-", variables |-> Undef]
NoReply == [kind |-> "none", message |-> "", data |-> Undef]

\* res.status(code).json({ error })
JsonError(code, error) == [status |-> code, error |-> error, location |-> Undef]

\* res.redirect(302, url)
Redirect(url) == [status |-> 302, error |-> "", location |-> url]

\* the catch clause: e?.message || 'Erreur interne'
Caught(message) == JsonError(500, IF message # "" THEN message ELSE "Erreur interne")

SyntaxErrorMessage == "Unexpected token in JSON"

\* req.body && typeof req.body.payload === 'string'
IsForm(rb) == Truthy(rb) /\ Get(rb, "payload").t = "string"

\* mutant of LinesMissing: the length test is left out
LinesNotArray(b) == Get(b, "lines").t # "array"

\* !Array.isArray(body?.lines) || !body.lines.length
LinesMissing(b) ==
  LET lines == Get(b, "lines")
  IN  lines.t # "array" \/ Len(lines.items) = 0

\* mutant of NotConfigured: the access token is not looked at
DomainMissing(s) == ~Truthy(s.domain)

\* !s?.domain || !s?.sfApi
NotConfigured(s) == ~Truthy(s.domain) \/ ~Truthy(s.sfApi)

\* r.ok
ResponseOk(outcome) == outcome = "status-ok"

\* pickTargetShop asks B first, then C
FirstShop == "B"

\* mutant of NextShop: no shop is asked after the first
NoNextShop(k) == "none"

NextShop(k) == IF k = "B" THEN "C" ELSE "none"

Init ==
  /\ SHOPS \in ShopConfigs
  /\ pc = "idle"
  /\ reqBody = NoReq
  /\ body = Undef
  /\ cur = "-"
  /\ health = <<>>
  /\ picks = 0
  /\ target = "unset"
  /\ carts = <<>>
  /\ outbound = NoMsg
  /\ answer = NoReply
  /\ res = NoRes

\* The handler ends: the response is sent and its locals are gone.
Finish(response) ==
  /\ pc' = "done"
  /\ res' = response
  /\ body' = Undef
  /\ cur' = "-"
  /\ outbound' = NoMsg

\* A POST /bridge arrives: the body parsers have filled req.body.
Arrive(rb) ==
  /\ pc = "idle"
  /\ reqBody' = rb
  /\ pc' = "bridge"
  /\ UNCHANGED <<SHOPS, body, cur, health, picks, target, carts, outbound, answer, res>>

\* the handler's `body`: JSON.parse(req.body.payload) for a form, else req.body
ParsedBody(rb) == IF IsForm(rb) THEN JSONParse(Get(rb, "payload").s) ELSE Ok(rb, 0)

\* POST /bridge up to its first await: the body is parsed when it is a form,
\* its lines are checked, and pickTargetShop is entered.
Bridge ==
  /\ pc = "bridge"
  /\ IF ~ParsedBody(reqBody).ok
       THEN Finish(Caught(SyntaxErrorMessage)) /\ UNCHANGED <<picks, reqBody>>
     ELSE IF LinesMissing(ParsedBody(reqBody).v)
       THEN Finish(JsonError(400, "lines manquantes")) /\ UNCHANGED <<picks, reqBody>>
     ELSE /\ body' = ParsedBody(reqBody).v
          /\ picks' = picks + 1
          /\ cur' = FirstShop
          /\ pc' = "healthCheck"
          /\ UNCHANGED <<res, outbound, reqBody>>
  /\ UNCHANGED <<SHOPS, health, target, carts, answer>>

\* healthCheck(cur) has returned `result`: pickTargetShop returns the shop,
\* asks the next one, or returns null and the handler answers 503.
Probed(entry) ==
  /\ health' = Append(health, entry)
  /\ IF entry.result
       THEN /\ target' = entry.shop
            /\ pc' = "createCheckout"
            /\ cur' = "-"
            /\ UNCHANGED <<res, reqBody, body, outbound>>
     ELSE IF NextShop(entry.shop) # "none"
       THEN /\ cur' = NextShop(entry.shop)
            /\ pc' = "healthCheck"
            /\ UNCHANGED <<res, reqBody, body, outbound, target>>
     ELSE /\ target' = "none"
          /\ Finish(JsonError(503, "Aucun shop disponible"))
          /\ UNCHANGED reqBody

\* healthCheck(cur) up to its await: false at once when the shop is not
\* configured, else the probe request is sent.
HealthCheck ==
  /\ pc = "healthCheck"
  /\ IF NotConfigured(SHOPS[cur])
       THEN Probed([shop |-> cur, fetched |-> FALSE, outcome |-> "none", result |-> FALSE])
       ELSE /\ pc' = "probing"
            /\ UNCHANGED <<health, target, cur, res, reqBody, body, outbound>>
  /\ UNCHANGED <<SHOPS, picks, carts, answer>>

\* the probe's round trip ends: r.ok, or false when fetch rejected
ProbeReply(outcome) ==
  /\ pc = "probing"
  /\ Probed([shop |-> cur, fetched |-> TRUE, outcome |-> outcome,
             result |-> ResponseOk(outcome)])
  /\ UNCHANGED <<SHOPS, picks, carts, answer>>

\* createCheckout(target, body) up to its await: the variables are built and
\* the mutation is sent, unless a conversion raises.
CreateCheckout ==
  /\ pc = "createCheckout"
  /\ IF NormalizeThrows(body)
       THEN Finish(Caught(TypeErrorMessage)) /\ UNCHANGED <<carts, reqBody>>
       ELSE /\ outbound' = [shop |-> target, variables |-> Variables(body)]
            /\ carts' = Append(carts, target)
            /\ pc' = "creating"
            /\ UNCHANGED <<res, reqBody, body, cur>>
  /\ UNCHANGED <<SHOPS, health, picks, target, answer>>

\* The mutation reaches the shop.  The handler waits on the round trip and
\* reads the payload no more.
Deliver ==
  /\ pc = "creating"
  /\ pc' = "awaiting"
  /\ outbound' = NoMsg
  /\ reqBody' = NoReq
  /\ body' = Undef
  /\ UNCHANGED <<SHOPS, cur, health, picks, target, carts, answer, res>>

\* the mutation's round trip ends: the handler redirects or answers 500
CheckoutReply(reply) ==
  /\ pc = "awaiting"
  /\ answer' = reply
  /\ IF reply.kind # "json"
       THEN Finish(Caught(reply.message))
     ELSE IF CheckoutOutcome(reply.data).thrown
       THEN Finish(Caught(CheckoutOutcome(reply.data).message))
     ELSE Finish(Redirect(CheckoutOutcome(reply.data).url))
  /\ UNCHANGED <<SHOPS, reqBody, health, picks, target, carts>>

Next ==
  \/ \E rb \in RequestBodies : Arrive(rb)
  \/ Bridge
  \/ HealthCheck
  \/ \E outcome \in ProbeOutcomes : ProbeReply(outcome)
  \/ CreateCheckout
  \/ Deliver
  \/ \E reply \in Replies : CheckoutReply(reply)

Spec == Init /\ [][Next]_vars

\* ------------------------------------------------------------------------
\* Properties
\* ------------------------------------------------------------------------
\* a request is held and has been looked at by the handler
Handled == pc \notin {"idle", "bridge"} /\ reqBody # NoReq

\* the `lines` of the held request's parsed payload
HeldLines == Get(ParsedBody(reqBody).v, "lines")

Contains(s, sub) ==
  \E i \in 1..(Len(s) - Len(sub) + 1) : SubSeq(s, i, i + Len(sub) - 1) = sub

\* C1: a form whose `payload` string is not valid JSON is answered with
\* status 400, and neither a health probe nor a checkout creation is issued
\* for it.
C1_InvalidPayloadIs400 ==
  (Handled /\ IsForm(reqBody) /\ ~JSONParse(Get(reqBody, "payload").s).ok)
    => /\ pc = "done"
       /\ res.status = 400
       /\ health = <<>>
       /\ carts = <<>>

\* C2: a parsed payload whose `lines` is missing, not an array or an empty
\* array is answered 400 "lines manquantes" before any health probe or
\* checkout creation; a payload whose `lines` is a non-empty array is never
\* answered 400 (a 400 is only ever sent before the shop selection starts).
C2_LinesMissingIs400 ==
  /\ (Handled /\ ParsedBody(reqBody).ok)
       => IF HeldLines.t = "array" /\ HeldLines.items # <<>>
            THEN picks = 1 /\ res.status # 400
            ELSE /\ pc = "done"
                 /\ res = [status |-> 400, error |-> "lines manquantes", location |-> Undef]
                 /\ picks = 0
                 /\ health = <<>>
                 /\ carts = <<>>
  /\ res.status = 400 => picks = 0 /\ health = <<>> /\ carts = <<>>

C2_Witness ==
  /\ pc = "done"
  /\ reqBody # NoReq
  /\ ParsedBody(reqBody).ok
  /\ HeldLines = Arr(<<>>)
  /\ res.status = 400

\* C3: the shop selected is the first of B, C whose probe returned true, and
\* none exactly when no probe returned true: B whenever B's probe is true (C
\* is then not asked), C only after B's probe returned false.
C3_FirstHealthyInOrder ==
  /\ target = "unset" => \A i \in 1..Len(health) : ~health[i].result
  /\ target = "B" => Len(health) = 1 /\ health[1].shop = "B" /\ health[1].result
  /\ target = "C" => /\ Len(health) = 2
                     /\ health[1].shop = "B" /\ ~health[1].result
                     /\ health[2].shop = "C" /\ health[2].result
  /\ target = "none" => /\ Len(health) = 2
                        /\ health[1].shop = "B" /\ ~health[1].result
                        /\ health[2].shop = "C" /\ ~health[2].result

C3_Witness ==
  /\ target = "C"
  /\ health[1].shop = "B" /\ health[1].fetched /\ ~health[1].result

\* C4: a request that passes validation has exactly one shop selection; a
\* request in which a shop is selected has exactly one checkout creation,
\* sent to the selected shop; when it fails the request ends with 500 and
\* nothing further is probed or sent.
C4_OneSelectionOneAttempt ==
  /\ picks <= 1
  /\ Len(carts) <= 1
  /\ (Handled /\ ParsedBody(reqBody).ok /\ HeldLines.t = "array" /\ HeldLines.items # <<>>)
       => picks = 1
  /\ (pc \in {"creating", "awaiting", "done"} /\ target \in ShopKeys) => carts = <<target>>
  /\ (pc = "done" /\ target \in ShopKeys) => res.status \in {302, 500}
  /\ target \notin ShopKeys => carts = <<>>

\* C5: a 302 is sent only with the Location the selected shop returned as a
\* non-empty checkout URL in an answer without user errors; an answer with
\* neither user errors nor a checkout URL is answered 500, with no redirect.
NoUserErrors(data) ==
  LET errs == Get(Get(Get(data, "data"), "cartCreate"), "userErrors")
  IN  errs.t # "array" \/ errs.items = <<>>

ReturnedUrl(data) == Get(Get(Get(Get(data, "data"), "cartCreate"), "cart"), "checkoutUrl")

C5_RedirectOnlyToCheckoutUrl ==
  /\ (res.status = 302 \/ res.location # Undef)
       => /\ pc = "done"
          /\ res.status = 302
          /\ carts = <<target>>
          /\ answer.kind = "json"
          /\ NoUserErrors(answer.data)
          /\ res.location = ReturnedUrl(answer.data)
          /\ res.location.t = "string" /\ res.location.s # ""
  /\ (pc = "done" /\ answer.kind = "json" /\ NoUserErrors(answer.data)
        /\ ReturnedUrl(answer.data) \in {Undef, Null, Str("")})
       => res.status = 500 /\ res.location = Undef

C5_Witness ==
  /\ pc = "done"
  /\ res.status = 302
  /\ res.location = Str("https://b.myshopify.com/cart/c/1")
  /\ answer.data = Answer(Arr(<<>>), Str("https://b.myshopify.com/cart/c/1"))

\* the messages of a userErrors array, "; " between them
RECURSIVE Joined(_)
Joined(items) ==
  IF items = <<>> THEN ""
  ELSE Get(items[1], "message").s
       \o (IF Len(items) = 1 THEN "" ELSE "; " \o Joined(Tail(items)))

AnsweredErrors == Get(Get(Get(answer.data, "data"), "cartCreate"), "userErrors")

HasAnsweredErrors ==
  pc = "done" /\ answer.kind = "json" /\ AnsweredErrors.t = "array" /\ AnsweredErrors.items # <<>>

\* C6 (as claimed): an answer with at least one user error is answered 500
\* with the joined messages as the error (exactly m for a single error with
\* message m), and is never redirected.
C6_UserErrorsAre500 ==
  HasAnsweredErrors
    => /\ res.status = 500
       /\ res.location = Undef
       /\ res.error = Joined(AnsweredErrors.items)
       /\ Len(AnsweredErrors.items) = 1 => res.error = Get(AnsweredErrors.items[1], "message").s

\* C6 (amended): an answer with at least one user error is answered 500 and
\* never redirected, also when it carries a checkout URL; the error is the
\* joined messages when that string is not empty (exactly m for a single
\* error with a non-empty message m) and "Erreur interne" when it is empty.
C6_UserErrorsAre500OrGeneric ==
  HasAnsweredErrors
    => /\ res.status = 500
       /\ res.location = Undef
       /\ Joined(AnsweredErrors.items) # "" => res.error = Joined(AnsweredErrors.items)
       /\ Joined(AnsweredErrors.items) = "" => res.error = "Erreur interne"
       /\ (Len(AnsweredErrors.items) = 1 /\ Get(AnsweredErrors.items[1], "message").s # "")
            => res.error = Get(AnsweredErrors.items[1], "message").s

C6_Witness ==
  /\ pc = "done"
  /\ answer.kind = "json"
  /\ answer.data = Answer(Arr(<<UserError("Out of stock")>>),
                          Str("https://b.myshopify.com/cart/c/1"))
  /\ res = [status |-> 500, error |-> "Out of stock", location |-> Undef]

\* C7: healthCheck returns false without a network call when the shop's
\* domain or token is absent or empty, false when the round trip is rejected
\* or ends with a non-success status, true only when its one round trip ends
\* with a success status, and never raises; when every probe of a valid
\* request fails, the request ends with 503 "Aucun shop disponible", not
\* 500, and no checkout creation is sent.
Blank(v) == v \in {Undef, Null, Str("")}

C7_ProbeNeverRaises ==
  /\ \A i \in 1..Len(health) :
       LET e == health[i]
           unset == Blank(SHOPS[e.shop].domain) \/ Blank(SHOPS[e.shop].sfApi)
       IN  /\ unset => ~e.fetched /\ ~e.result
           /\ ~unset => e.fetched
           /\ e.fetched => e.outcome \in ProbeOutcomes
           /\ e.outcome \in {"rejected", "status-error"} => ~e.result
           /\ e.result <=> (e.fetched /\ e.outcome = "status-ok")
  /\ pc = "probing" => ~Blank(SHOPS[cur].domain) /\ ~Blank(SHOPS[cur].sfApi)
  /\ pc \in {"healthCheck", "probing"} => res = NoRes /\ carts = <<>>
  /\ (Len(health) = Cardinality(ShopKeys) /\ \A i \in 1..Len(health) : ~health[i].result)
       => /\ pc = "done"
          /\ res = [status |-> 503, error |-> "Aucun shop disponible", location |-> Undef]
          /\ carts = <<>>

C7_Witness ==
  /\ pc = "done"
  /\ res.status = 503
  /\ Len(health) = 2
  /\ ~health[1].fetched
  /\ health[2].fetched /\ health[2].outcome = "rejected"

\* the pairs the filtering rule keeps of a mapping: the entries whose value
\* is a string, a number or a boolean, in order, as strings
IsScalar(e) == e.value.t \in {"string", "number", "boolean"}

ScalarPairs(m) ==
  LET kept == IF m.t \in {"object", "array"} THEN SelectSeq(Entries(m), IsScalar) ELSE <<>>
  IN  [i \in 1..Len(kept) |-> [key |-> kept[i].key, value |-> ToStr(kept[i].value)]]

\* C8: the same filtering rule holds at line-property scope and at
\* payload-attribute scope: the pairs sent are exactly the entries whose
\* value is a non-null string, number or boolean, in order, as strings.
C8_SameFilterBothScopes ==
  pc = "creating"
    => /\ outbound.variables.attributes = ScalarPairs(Get(body, "attributes"))
       /\ \A i \in 1..Len(outbound.variables.lines) :
            outbound.variables.lines[i].attributes
              = ScalarPairs(Get(Get(body, "lines").items[i], "properties"))

\* C9: whatever the `quantity` of a line request, the quantity sent is an
\* integer >= 1, and it is 1 when the field is absent or coerces to a falsy
\* number or NaN.
C9_QuantityAtLeastOne ==
  pc = "creating"
    => \A i \in 1..Len(outbound.variables.lines) :
         LET q == outbound.variables.lines[i].quantity
             n == ToNumber(Get(Get(body, "lines").items[i], "quantity"))
         IN  /\ ~q.nan /\ q.den = 1 /\ q.num >= 1
             /\ (n.nan \/ n.num = 0) => q = Num(1)

\* C10: the merchandise identifier sent is the `id` unchanged when it is a
\* string with the gid:// prefix, and otherwise gid://shopify/ProductVariant/
\* followed by the stringified id (the empty string only when the id is
\* absent); it is always of the form gid://.../ProductVariant/<id>, and
\* normalizing it again yields the same value.
C10_CanonicalVariantGid ==
  pc = "creating"
    => \A i \in 1..Len(outbound.variables.lines) :
         LET id == Get(Get(body, "lines").items[i], "id")
             m == outbound.variables.lines[i].merchandiseId
         IN  /\ IF id.t = "string" /\ StartsWith(id.s, "gid://")
                  THEN m = id.s
                  ELSE m = "gid://shopify/ProductVariant/"
                             \o (IF IsNullish(id) THEN "" ELSE ToStr(id))
             /\ StartsWith(m, "gid://") /\ Contains(m, "/ProductVariant/")
             /\ toVariantGID(Str(m)) = m

=============================================================================
